---- MODULE Spec2Model ----
(***************************************************************************)
(* Model of the Trafilatura MCP server (src/src/trafilatura_mcp/server.py): *)
(* the call_tool handler, the pydantic input model ExtractMarkdownInput,    *)
(* fetch_url_async, extract_content_async and extract_markdown_tool.        *)
(*                                                                          *)
(* A call is a coroutine.  Its steps are cut at the points where the code   *)
(* awaits: the HTTP GET (line 140) and the executor future (line 195).      *)
(* Strings are sequences of characters, URLs are sequences of lexical       *)
(* tokens, Optional[T] is a sequence of length at most one.                 *)
(***************************************************************************)
EXTENDS Integers, Sequences, FiniteSets, TLC

----------------------------------------------------------------------------
(* Bounds of the model *)

NumCalls == 2       \* calls in flight in Spec
MaxStrLen == 3      \* longest html / response body / engine output
MaxUrlLen == 5      \* longest url, in tokens

(* Program constants *)

TimeoutMin == 5
TimeoutMax == 120
TimeoutDefault == 30

Calls == 1..NumCalls

----------------------------------------------------------------------------
(* Optional values and strings *)

None == <<>>
Some(v) == <<v>>

Chars == {" ", "x"}

Strings(n) == UNION {[1..k -> Chars] : k \in 0..n}

IsSpace(ch) == ch = " "

RECURSIVE lstrip(_)
lstrip(s) ==
    IF s = <<>> THEN <<>>
    ELSE IF IsSpace(Head(s)) THEN lstrip(Tail(s)) ELSE s

RECURSIVE rstrip(_)
rstrip(s) ==
    IF s = <<>> THEN <<>>
    ELSE IF IsSpace(s[Len(s)]) THEN rstrip(SubSeq(s, 1, Len(s) - 1)) ELSE s

\* str.strip()
strip(s) == rstrip(lstrip(s))

\* truth value of an Optional[str]: None and "" are falsy
Truthy(opt) == opt # None /\ opt[1] # <<>>

\* variant: only `not s`, whitespace is not stripped
IsBlankNoStrip(opt) == ~Truthy(opt)

\* the condition `not s or not s.strip()` of lines 232 and 247
IsBlank(opt) == ~Truthy(opt) \/ strip(opt[1]) = <<>>

----------------------------------------------------------------------------
(* urlparse, on URLs given as token sequences.  A word token is a run of   *)
(* scheme characters; ":" and "/" are the delimiters urlparse looks for.   *)

UrlTokens == {"http", "https", "ftp", "w", ":", "/"}

Urls(n) == UNION {[1..k -> UrlTokens] : k \in 0..n}

IsWord(t) == t \notin {":", "/"}

\* str.find, 1-based; 0 when absent
FirstIndex(u, t) ==
    IF \E i \in 1..Len(u) : u[i] = t
    THEN CHOOSE i \in 1..Len(u) : u[i] = t /\ \A j \in 1..(i - 1) : u[j] # t
    ELSE 0

urlparse(u) ==
    LET i == FirstIndex(u, ":")
        hasScheme == i > 1 /\ \A j \in 1..(i - 1) : IsWord(u[j])
        scheme == IF hasScheme THEN SubSeq(u, 1, i - 1) ELSE <<>>
        rest == IF hasScheme THEN SubSeq(u, i + 1, Len(u)) ELSE u
        hasNetloc == Len(rest) >= 2 /\ rest[1] = "/" /\ rest[2] = "/"
        after == IF hasNetloc THEN SubSeq(rest, 3, Len(rest)) ELSE <<>>
        k == FirstIndex(after, "/")
        netloc == IF k = 0 THEN after ELSE SubSeq(after, 1, k - 1)
    IN  [scheme |-> scheme, netloc |-> netloc]

----------------------------------------------------------------------------
(* ExtractMarkdownInput: field validators, then the model validator.       *)
(* Each validator yields the text of its error, <<>> when it passes.       *)

MsgNetloc == "URL must include scheme and netloc (e.g., https://example.com)"
MsgScheme == "URL scheme must be http or https"
MsgFormat == "Output format must be one of: markdown, txt, xml"
MsgTimeoutGe == "Input should be greater than or equal to 5"
MsgTimeoutLe == "Input should be less than or equal to 120"
MsgSource == "Provide exactly one of 'url' or 'html'"

AllowedSchemes == {<<"http">>, <<"https">>}

\* variant: the scheme check left out
validate_url_any_scheme(v) ==
    IF v = None THEN <<>>
    ELSE LET result == urlparse(v[1]) IN
         IF result.scheme = <<>> \/ result.netloc = <<>>
         THEN <<"Invalid URL format:", MsgNetloc>>
         ELSE <<>>

validate_url(v) ==
    IF v = None THEN <<>>
    ELSE LET result == urlparse(v[1]) IN
         IF result.scheme = <<>> \/ result.netloc = <<>>
         THEN <<"Invalid URL format:", MsgNetloc>>
         ELSE IF result.scheme \notin AllowedSchemes
         THEN <<"Invalid URL format:", MsgScheme>>
         ELSE <<>>

valid_formats == {"markdown", "txt", "xml"}

validate_output_format(v) ==
    IF v # None /\ v[1] \notin valid_formats THEN <<MsgFormat>> ELSE <<>>

\* variant: gt/lt in place of ge/le
validate_timeout_strict(t) ==
    IF t = None THEN <<>>
    ELSE IF ~(t[1] > TimeoutMin) THEN <<MsgTimeoutGe>>
    ELSE IF ~(t[1] < TimeoutMax) THEN <<MsgTimeoutLe>>
    ELSE <<>>

\* Field(ge=5, le=120)
validate_timeout(t) ==
    IF t = None THEN <<>>
    ELSE IF ~(t[1] >= TimeoutMin) THEN <<MsgTimeoutGe>>
    ELSE IF ~(t[1] <= TimeoutMax) THEN <<MsgTimeoutLe>>
    ELSE <<>>

\* `self.html is not None and self.html.strip()`: False, or the stripped str
html_provided(html) ==
    IF html = None
    THEN [type |-> "bool", bool |-> FALSE, str |-> <<>>]
    ELSE [type |-> "str", bool |-> FALSE, str |-> strip(html[1])]

\* Python's b == v for a bool b: a str never equals a bool
PyEqBool(b, v) == v.type = "bool" /\ v.bool = b

\* variant: only "both given" is rejected
validate_input_source_both_only(url, html) ==
    IF url # None /\ html # None THEN <<MsgSource>> ELSE <<>>

validate_input_source(url, html) ==
    LET url_provided == url # None IN
    IF PyEqBool(url_provided, html_provided(html)) THEN <<MsgSource>> ELSE <<>>

\* The model with its defaults filled in
InputData(args) ==
    [url |-> args.url,
     html |-> args.html,
     timeout |-> IF args.timeout = None THEN TimeoutDefault ELSE args.timeout[1],
     output_format |-> IF args.output_format = None THEN "markdown"
                       ELSE args.output_format[1]]

\* ExtractMarkdownInput(**args): field errors in field order; the model
\* validator (mode="after") runs only when every field validated; a key
\* that is no field of the model is ignored.
ExtractMarkdownInput(args) ==
    LET fieldErrors == validate_url(args.url) \o validate_timeout(args.timeout)
                         \o validate_output_format(args.output_format)
        errors == IF fieldErrors # <<>> THEN fieldErrors
                  ELSE validate_input_source(args.url, args.html)
    IN  [errors |-> errors, data |-> InputData(args)]

----------------------------------------------------------------------------
(* Requests, HTTP responses, engine outcomes *)

Args(url, html, timeout, fmt, extra) ==
    [url |-> url, html |-> html, timeout |-> timeout, output_format |-> fmt,
     extra |-> extra]

EmptyArgs == Args(None, None, None, None, FALSE)

\* `request.params.arguments or {}`
ArgumentsOrEmpty(a) == IF a = None THEN EmptyArgs ELSE a[1]

Request(method, name, arguments) ==
    [method |-> method, params |-> [name |-> name, arguments |-> arguments]]

ToolCall(args) == Request("tools/call", "extract_markdown", Some(args))

GoodUrl == <<"https", ":", "/", "/", "w">>
HttpUrl == <<"http", ":", "/", "/", "w">>
FtpUrl == <<"ftp", ":", "/", "/", "w">>

TimeoutValues == {0, 1, 4, 5, 30, 120, 121}
FormatValues == {"markdown", "txt", "xml", "pdf"}
OptionalOf(S) == {None} \cup {Some(x) : x \in S}

\* the requests of the one-call specification
UrlRequests ==
    {ToolCall(Args(Some(u), None, None, None, FALSE)) : u \in Urls(MaxUrlLen)}

SourceRequests ==
    {ToolCall(Args(u, h, None, None, e)) :
        u \in {None, Some(GoodUrl), Some(FtpUrl)},
        h \in OptionalOf(Strings(MaxStrLen)),
        e \in BOOLEAN}

OptionRequests ==
    {ToolCall(Args(u, h, t, f, FALSE)) :
        u \in {None, Some(HttpUrl)},
        h \in {None, Some(<<"x">>)},
        t \in OptionalOf(TimeoutValues),
        f \in OptionalOf(FormatValues)}

ProtocolRequests ==
    {Request(m, n, a) :
        m \in {"tools/call", "tools/list"},
        n \in {"extract_markdown", "foo"},
        a \in {None, Some(Args(None, Some(<<"x">>), None, None, FALSE)),
               Some(Args(Some(GoodUrl), None, None, None, FALSE))}}

AllRequests == UrlRequests \cup SourceRequests \cup OptionRequests \cup ProtocolRequests

\* the requests of the concurrent specification
FewRequests ==
    {Request("tools/call", "foo", Some(Args(None, Some(<<"x">>), None, None, FALSE))),
     Request("tools/list", "extract_markdown", None),
     Request("tools/call", "extract_markdown", None),
     ToolCall(Args(Some(GoodUrl), None, None, None, FALSE)),
     ToolCall(Args(Some(GoodUrl), Some(<<"x">>), None, None, FALSE)),
     ToolCall(Args(Some(FtpUrl), None, None, None, FALSE)),
     ToolCall(Args(None, Some(<<" ", "x", " ">>), None, None, TRUE)),
     ToolCall(Args(None, Some(<<" ">>), None, None, FALSE)),
     ToolCall(Args(None, Some(<<"x">>), Some(1), None, FALSE))}

\* what the awaited GET can do: a 2xx body, a timeout, a non-2xx status,
\* any other fault
HttpResponses(bodies) ==
    {[kind |-> "ok", text |-> b, status |-> "200"] : b \in bodies}
    \cup {[kind |-> "timeout", text |-> <<>>, status |-> ""],
          [kind |-> "status", text |-> <<"x">>, status |-> "404"],
          [kind |-> "status", text |-> <<"x">>, status |-> "500"],
          [kind |-> "fault", text |-> <<>>, status |-> ""]}

\* the texts of the exceptions the engine raises
Causes == {"ValueError: bad tree", "MemoryError"}

\* what trafilatura.extract can do: return a str, return None, raise
EngineOutcomes(texts) ==
    {[kind |-> "value", text |-> t, cause |-> ""] : t \in texts}
    \cup {[kind |-> "none", text |-> <<>>, cause |-> ""]}
    \cup {[kind |-> "raise", text |-> <<>>, cause |-> e] : e \in Causes}

FewTexts == {<<"x">>, <<" ">>, <<" ", "x", " ">>}

\* list_tools: the one tool and its input schema, built from literals
ToolDescriptor ==
    [name |-> "extract_markdown",
     properties |-> {"url", "html", "precision", "include_comments", "include_tables",
                     "include_images", "include_links", "timeout", "output_format"},
     oneOf |-> {{"url"}, {"html"}},
     additionalProperties |-> FALSE]

----------------------------------------------------------------------------
(* Errors and results *)

McpError(code, message) == [code |-> code, message |-> message]

TextContent(text) == [type |-> "text", text |-> text]

CallToolResult(content, isError) == [content |-> content, isError |-> isError]

MsgNoHtml == "No HTML content available for extraction"
MsgEmpty ==
    "Trafilatura returned empty content. The page may not contain extractable text."

----------------------------------------------------------------------------
(* State: one record per call *)

VARIABLES call

vars == <<call>>

NewCall ==
    [pc |-> "Idle",
     request |-> None,          \* the CallToolRequest
     input_data |-> None,       \* the validated ExtractMarkdownInput
     gets |-> <<>>,             \* the GETs issued, in order
     response |-> None,         \* what the awaited GET produced
     html_content |-> None,
     engineCalls |-> <<>>,      \* the invocations of extract, in order
     future |-> None,           \* the executor's future, once done
     result |-> None,           \* the CallToolResult call_tool returned
     raised |-> None]           \* the McpError that left call_tool

Init == call = [c \in Calls |-> NewCall]

----------------------------------------------------------------------------
(* The handler, cut at its awaits; each piece maps a call to its next state *)

\* an McpError raised out of call_tool itself
Propagate(st, e) == [st EXCEPT !.pc = "Failed", !.raised = Some(e)]

\* variant: the McpError is re-raised instead of being turned into a result
ToolFailureRaises(st, e) == [st EXCEPT !.pc = "Failed", !.raised = Some(e)]

\* call_tool: `except McpError as e`
ToolFailure(st, e) ==
    [st EXCEPT !.pc = "Failed",
               !.result = Some(CallToolResult(<<TextContent(e.message)>>, TRUE))]

\* call_tool: `return CallToolResult(content=content, isError=False)`
ToolSuccess(st, content) ==
    [st EXCEPT !.pc = "Succeeded", !.result = Some(CallToolResult(content, FALSE))]

\* variant: the tool name is not checked
KnownToolAny(name) == TRUE

KnownTool(name) == name = "extract_markdown"

\* call_tool up to the call of extract_markdown_tool
Dispatch(st) ==
    LET req == st.request[1] IN
    IF req.method # "tools/call"
    THEN Propagate(st, McpError("METHOD_NOT_FOUND", <<"Method not found:", req.method>>))
    ELSE IF ~KnownTool(req.params.name)
    THEN Propagate(st, McpError("INVALID_PARAMS", <<"Unknown tool:", req.params.name>>))
    ELSE [st EXCEPT !.pc = "Validating"]

\* variant: the blank check of line 232 left out
StartExtractionNoCheck(st, data, html) ==
    [st EXCEPT !.pc = "Extracting",
               !.html_content = html,
               !.engineCalls = Append(@, [html |-> IF html = None THEN <<>> ELSE html[1],
                                          output_format |-> data.output_format])]

\* variant: the HTML is stripped before it is handed to the engine
StartExtractionTrimmed(st, data, html) ==
    IF IsBlank(html)
    THEN ToolFailure([st EXCEPT !.html_content = html],
                     McpError("INTERNAL_ERROR", <<MsgNoHtml>>))
    ELSE [st EXCEPT !.pc = "Extracting",
                    !.html_content = html,
                    !.engineCalls = Append(@, [html |-> strip(html[1]),
                                               output_format |-> data.output_format])]

\* extract_markdown_tool from the blank check on the HTML to the await of
\* extract_content_async
StartExtraction(st, data, html) ==
    IF IsBlank(html)
    THEN ToolFailure([st EXCEPT !.html_content = html],
                     McpError("INTERNAL_ERROR", <<MsgNoHtml>>))
    ELSE [st EXCEPT !.pc = "Extracting",
                    !.html_content = html,
                    !.engineCalls = Append(@, [html |-> html[1],
                                               output_format |-> data.output_format])]

\* variant: the validation error is logged but not raised
ValidateAndAcquireNoRaise(st) ==
    LET args == ArgumentsOrEmpty(st.request[1].params.arguments)
        v == ExtractMarkdownInput(args)
    IN  IF Truthy(v.data.url)
        THEN [st EXCEPT !.pc = "Acquiring",
                        !.input_data = Some(v.data),
                        !.gets = Append(@, [url |-> v.data.url[1],
                                            timeout |-> v.data.timeout])]
        ELSE StartExtraction([st EXCEPT !.input_data = Some(v.data)], v.data, v.data.html)

\* extract_markdown_tool from its start to its first await
ValidateAndAcquire(st) ==
    LET args == ArgumentsOrEmpty(st.request[1].params.arguments)
        v == ExtractMarkdownInput(args)
    IN  IF v.errors # <<>>
        THEN ToolFailure(st, McpError("INVALID_PARAMS", <<"Invalid parameters:">> \o v.errors))
        ELSE IF Truthy(v.data.url)
        THEN [st EXCEPT !.pc = "Acquiring",
                        !.input_data = Some(v.data),
                        !.gets = Append(@, [url |-> v.data.url[1],
                                            timeout |-> v.data.timeout])]
        ELSE StartExtraction([st EXCEPT !.input_data = Some(v.data)], v.data, v.data.html)

\* fetch_url_async after the await of client.get: the body, or an McpError
FetchError(resp) ==
    IF resp.kind = "timeout" THEN McpError("INTERNAL_ERROR", <<"Timeout fetching URL">>)
    ELSE IF resp.kind = "status"
    THEN McpError("INTERNAL_ERROR", <<"HTTP", resp.status, "error fetching URL">>)
    ELSE McpError("INTERNAL_ERROR", <<"Error fetching URL">>)

\* variant: raise_for_status() left out, so an error page is extracted
FetchDoneNoStatusCheck(st, resp) ==
    LET got == [st EXCEPT !.response = Some(resp)] IN
    IF resp.kind \in {"ok", "status"}
    THEN StartExtraction(got, st.input_data[1], Some(resp.text))
    ELSE ToolFailure(got, FetchError(resp))

\* variant: a timed-out GET is issued a second time
FetchDoneRetriesOnce(st, resp) ==
    LET got == [st EXCEPT !.response = Some(resp)] IN
    IF resp.kind = "ok"
    THEN StartExtraction(got, st.input_data[1], Some(resp.text))
    ELSE IF resp.kind = "timeout" /\ Len(st.gets) < 2
    THEN [st EXCEPT !.gets = Append(@, @[1])]
    ELSE ToolFailure(got, FetchError(resp))

FetchDone(st, resp) ==
    LET got == [st EXCEPT !.response = Some(resp)] IN
    IF resp.kind = "ok"
    THEN StartExtraction(got, st.input_data[1], Some(resp.text))
    ELSE ToolFailure(got, FetchError(resp))

\* variant: the payload is not stripped
SuccessTextRaw(extracted) == extracted

\* the payload of a success: `extracted_content.strip()`
SuccessText(extracted) == strip(extracted)

\* variant: the engine's exception is not caught in extract_content_async, so
\* extract_markdown_tool's `except Exception` (258-260) wraps it
ExtractionErrorUnclassified(cause) ==
    McpError("INTERNAL_ERROR", <<"Unexpected error:", cause>>)

\* extract_content_async: `except Exception as e: raise McpError(...)`
ExtractionError(cause) ==
    McpError("INTERNAL_ERROR", <<"Content extraction failed:", cause>>)

\* variant: empty engine output makes the extraction run again
ExtractDoneRetriesWhenEmpty(st) ==
    LET out == st.future[1] IN
    IF out.kind = "raise"
    THEN ToolFailure(st, ExtractionError(out.cause))
    ELSE LET extracted_content == IF out.kind = "none" THEN None ELSE Some(out.text) IN
         IF IsBlank(extracted_content)
         THEN [st EXCEPT !.future = None]
         ELSE ToolSuccess(st, <<TextContent(SuccessText(extracted_content[1]))>>)

\* extract_content_async after its await, then the rest of extract_markdown_tool
ExtractDone(st) ==
    LET out == st.future[1] IN
    IF out.kind = "raise"
    THEN ToolFailure(st, ExtractionError(out.cause))
    ELSE LET extracted_content == IF out.kind = "none" THEN None ELSE Some(out.text) IN
         IF IsBlank(extracted_content)
         THEN ToolFailure(st, McpError("INTERNAL_ERROR", <<MsgEmpty>>))
         ELSE ToolSuccess(st, <<TextContent(SuccessText(extracted_content[1]))>>)

----------------------------------------------------------------------------
(* Actions *)

\* variant: extract runs on the event loop itself, so no coroutine resumes
\* while another call's extraction is running
LoopHeldByExtraction(c) ==
    \A d \in Calls \ {c} : ~(call[d].pc = "Extracting" /\ call[d].future = None)

\* The event loop can resume call c: the GET is awaited (140) and extract
\* runs in the executor (194-195), so no other call ever occupies the loop
\* while it is suspended.
LoopFree(c) == TRUE

\* the host delivers a request
Receive(c, requests) ==
    /\ call[c].pc = "Idle"
    /\ \E req \in requests :
          call' = [call EXCEPT ![c] = [@ EXCEPT !.pc = "Received", !.request = Some(req)]]

CallTool(c) ==
    /\ call[c].pc = "Received"
    /\ LoopFree(c)
    /\ call' = [call EXCEPT ![c] = Dispatch(@)]

Validate(c) ==
    /\ call[c].pc = "Validating"
    /\ LoopFree(c)
    /\ call' = [call EXCEPT ![c] = ValidateAndAcquire(@)]

\* the awaited GET completes
FetchReturn(c, bodies) ==
    /\ call[c].pc = "Acquiring"
    /\ LoopFree(c)
    /\ \E resp \in HttpResponses(bodies) :
          call' = [call EXCEPT ![c] = FetchDone(@, resp)]

\* variant: the outcome is kept in one module-level slot that every waiting
\* call reads
WorkerExtractShared(c, texts) ==
    /\ call[c].pc = "Extracting"
    /\ call[c].future = None
    /\ \E out \in EngineOutcomes(texts) :
          call' = [d \in Calls |->
                     IF call[d].pc = "Extracting" /\ call[d].future = None
                     THEN [call[d] EXCEPT !.future = Some(out)]
                     ELSE call[d]]

\* the executor thread runs _extract and completes the future
WorkerExtract(c, texts) ==
    /\ call[c].pc = "Extracting"
    /\ call[c].future = None
    /\ \E out \in EngineOutcomes(texts) :
          call' = [call EXCEPT ![c] = [@ EXCEPT !.future = Some(out)]]

\* the coroutine resumes with the future's outcome
ExtractReturn(c) ==
    /\ call[c].pc = "Extracting"
    /\ call[c].future # None
    /\ LoopFree(c)
    /\ call' = [call EXCEPT ![c] = ExtractDone(@)]

\* concurrent calls, few inputs
Next ==
    \E c \in Calls :
        \/ Receive(c, FewRequests)
        \/ CallTool(c)
        \/ Validate(c)
        \/ FetchReturn(c, FewTexts)
        \/ WorkerExtract(c, FewTexts)
        \/ ExtractReturn(c)

Spec == Init /\ [][Next]_vars

\* The event loop resumes every runnable coroutine, every GET returns, fails
\* or times out (httpx enforces the timeout of line 134), and the executor
\* runs every submitted job to its return or its exception.
Fairness ==
    \A c \in Calls :
        /\ WF_vars(CallTool(c))
        /\ WF_vars(Validate(c))
        /\ WF_vars(FetchReturn(c, FewTexts))
        /\ WF_vars(WorkerExtract(c, FewTexts))
        /\ WF_vars(ExtractReturn(c))

FairSpec == Spec /\ Fairness

\* one call, inputs drawn from every bounded payload
NextCall ==
    \/ Receive(1, AllRequests)
    \/ CallTool(1)
    \/ Validate(1)
    \/ FetchReturn(1, Strings(MaxStrLen))
    \/ WorkerExtract(1, Strings(MaxStrLen))
    \/ ExtractReturn(1)

SpecCall == Init /\ [][NextCall]_vars

----------------------------------------------------------------------------
(* Vocabulary of the properties *)

Req(c) == call[c].request[1]

Contains(seq, t) == \E i \in 1..Len(seq) : seq[i] = t

\* a tools/call request for extract_markdown has been received
ExtractCall(c) ==
    /\ call[c].request # None
    /\ Req(c).method = "tools/call"
    /\ Req(c).params.name = "extract_markdown"

CallArgs(c) == ArgumentsOrEmpty(Req(c).params.arguments)

Terminal(c) == call[c].pc \in {"Succeeded", "Failed"}

\* the validation step of the call has run
PastValidation(c) == call[c].pc \notin {"Idle", "Received", "Validating"}

NoFetch(c) == call[c].gets = <<>>
NoEngine(c) == call[c].engineCalls = <<>>

ErrorReturned(c) ==
    /\ call[c].pc = "Failed"
    /\ call[c].raised = None
    /\ call[c].result # None
    /\ call[c].result[1].isError
    /\ Len(call[c].result[1].content) = 1
    /\ call[c].result[1].content[1].type = "text"

ErrorText(c) == call[c].result[1].content[1].text

\* the call ended Failed with a validation error
ValidationFailed(c) == ErrorReturned(c) /\ ErrorText(c)[1] = "Invalid parameters:"

\* the call ended Failed with the exactly-one-of-source violation
SourceViolation(c) == ValidationFailed(c) /\ Contains(ErrorText(c), MsgSource)

NonBlank(s) == \E i \in 1..Len(s) : s[i] # " "

\* scheme ":" "/" "/" host ..., with scheme http or https
WellFormedHttpUrl(u) ==
    /\ Len(u) >= 5
    /\ u[1] \in {"http", "https"}
    /\ u[2] = ":" /\ u[3] = "/" /\ u[4] = "/"
    /\ u[5] # "/"

\* a scheme and a host are there and the scheme is the only fault
SchemeOnlyViolation(u) ==
    \E i \in 2..Len(u) :
        /\ u[i] = ":"
        /\ \A j \in 1..(i - 1) : u[j] \notin {":", "/"}
        /\ SubSeq(u, 1, i - 1) \notin {<<"http">>, <<"https">>}
        /\ Len(u) >= i + 3
        /\ u[i + 1] = "/" /\ u[i + 2] = "/" /\ u[i + 3] # "/"

TimeoutInRange(a) == a.timeout = None \/ (a.timeout[1] >= 5 /\ a.timeout[1] <= 120)

FormatInSet(a) ==
    a.output_format = None \/ a.output_format[1] \in {"markdown", "txt", "xml"}

\* exactly one source, and a good one
OneGoodSource(a) ==
    \/ a.url # None /\ WellFormedHttpUrl(a.url[1]) /\ a.html = None
    \/ a.url = None /\ a.html # None /\ NonBlank(a.html[1])

\* p is t without its leading and trailing whitespace
IsTrimOf(p, t) ==
    \E i \in 0..Len(t), j \in 0..Len(t) :
        /\ i + j + Len(p) = Len(t)
        /\ p = SubSeq(t, i + 1, Len(t) - j)
        /\ \A k \in 1..i : t[k] = " "
        /\ \A k \in (Len(t) - j + 1)..Len(t) : t[k] = " "
        /\ p # <<>> => (p[1] # " " /\ p[Len(p)] # " ")

\* some stage of the call met a failure
FaultSeen(c) ==
    \/ PastValidation(c) /\ call[c].input_data = None
    \/ call[c].response # None /\ call[c].response[1].kind # "ok"
    \/ call[c].html_content # None /\ ~NonBlank(call[c].html_content[1])
    \/ call[c].future # None /\ call[c].future[1].kind \in {"none", "raise"}
    \/ call[c].future # None /\ ~NonBlank(call[c].future[1].text)

----------------------------------------------------------------------------
(* C1: a tools/call for extract_markdown never lets an exception leave     *)
(* call_tool; once the call has ended, call_tool has returned a result     *)
(* with exactly one text item, and whenever a stage failed (validation,    *)
(* fetch timeout, status, transport fault, blank HTML, engine exception,   *)
(* blank engine output) that result has isError = true.                    *)
C1_EveryOutcomeIsAResult ==
    \A c \in Calls :
        ExtractCall(c) =>
            /\ call[c].raised = None
            /\ Terminal(c) =>
                  /\ call[c].result # None
                  /\ Len(call[c].result[1].content) = 1
                  /\ call[c].result[1].content[1].type = "text"
                  /\ call[c].result[1].isError <=> call[c].pc = "Failed"
                  /\ FaultSeen(c) => ErrorReturned(c)
            /\ ~Terminal(c) => call[c].result = None

C1_Witness ==
    \E c \in Calls :
        /\ ExtractCall(c)
        /\ call[c].future # None /\ call[c].future[1].kind = "raise"
        /\ call[c].gets # <<>>
        /\ ErrorReturned(c)

C3_BothSourcesRejected ==
    \A c \in Calls :
        (/\ ExtractCall(c)
         /\ CallArgs(c).url # None /\ WellFormedHttpUrl(CallArgs(c).url[1])
         /\ CallArgs(c).html # None /\ NonBlank(CallArgs(c).html[1])
         /\ TimeoutInRange(CallArgs(c)) /\ FormatInSet(CallArgs(c))) =>
            /\ NoFetch(c) /\ NoEngine(c)
            /\ PastValidation(c) => SourceViolation(c)

(* C4 as stated: with url and html both absent, whatever the other         *)
(* fields, validation fails with the exactly-one-of-source violation and   *)
(* nothing is fetched or extracted.                                        *)
C4_NeitherSourceAlwaysSourceViolation ==
    \A c \in Calls :
        (/\ ExtractCall(c)
         /\ CallArgs(c).url = None /\ CallArgs(c).html = None) =>
            /\ NoFetch(c) /\ NoEngine(c)
            /\ PastValidation(c) => SourceViolation(c)

(* C4, amended: with url and html both absent validation fails and nothing *)
(* is fetched or extracted; the failure reported is the exactly-one-of-    *)
(* source violation exactly when timeout and output_format are themselves  *)
(* valid (otherwise only the field violations are reported).               *)
C4_NeitherSourceRejected ==
    \A c \in Calls :
        (/\ ExtractCall(c)
         /\ CallArgs(c).url = None /\ CallArgs(c).html = None) =>
            /\ NoFetch(c) /\ NoEngine(c)
            /\ call[c].pc \in {"Received", "Validating", "Failed"}
            /\ PastValidation(c) =>
                  /\ ValidationFailed(c)
                  /\ SourceViolation(c) <=>
                        (TimeoutInRange(CallArgs(c)) /\ FormatInSet(CallArgs(c)))

C4_Witness ==
    \E c \in Calls :
        /\ ExtractCall(c)
        /\ Req(c).params.arguments # None
        /\ CallArgs(c).url = None /\ CallArgs(c).html = None
        /\ CallArgs(c).output_format = Some("txt")
        /\ SourceViolation(c)

(* C5: a url without a scheme, without a host, or with a scheme other than *)
(* http/https fails validation before any GET is issued; when the scheme   *)
(* is the url's only fault the message names the scheme constraint.        *)
C5_BadUrlRejected ==
    \A c \in Calls :
        (/\ ExtractCall(c)
         /\ CallArgs(c).url # None
         /\ ~WellFormedHttpUrl(CallArgs(c).url[1])) =>
            /\ NoFetch(c) /\ NoEngine(c)
            /\ call[c].pc \in {"Received", "Validating", "Failed"}
            /\ PastValidation(c) =>
                  /\ ValidationFailed(c)
                  /\ SchemeOnlyViolation(CallArgs(c).url[1]) =>
                        Contains(ErrorText(c), "URL scheme must be http or https")

C5_Witness ==
    \E c \in Calls :
        /\ ExtractCall(c)
        /\ CallArgs(c).url = Some(<<"ftp", ":", "/", "/", "w">>)
        /\ ValidationFailed(c)
        /\ Contains(ErrorText(c), "URL scheme must be http or https")
        /\ NoFetch(c)

(* C6: in an otherwise valid payload an integer timeout t fails validation *)
(* when t < 5 or t > 120, with no GET issued, and passes when              *)
(* 5 <= t <= 120; an omitted timeout becomes 30; the GET carries the       *)
(* validated timeout.                                                      *)
C6_TimeoutRange ==
    \A c \in Calls :
        (/\ ExtractCall(c)
         /\ PastValidation(c)
         /\ OneGoodSource(CallArgs(c))
         /\ FormatInSet(CallArgs(c))) =>
            LET a == CallArgs(c)
                t == IF a.timeout = None THEN 30 ELSE a.timeout[1]
            IN  IF t < 5 \/ t > 120
                THEN ValidationFailed(c) /\ NoFetch(c) /\ NoEngine(c)
                ELSE /\ call[c].input_data # None
                     /\ call[c].input_data[1].timeout = t
                     /\ a.url # None =>
                           call[c].gets = <<[url |-> a.url[1], timeout |-> t]>>

C6_Witness ==
    \E c \in Calls :
        /\ ExtractCall(c)
        /\ CallArgs(c).timeout = Some(5)
        /\ call[c].gets # <<>>
        /\ call[c].gets[1].timeout = 5

C8_HtmlNeverFetches ==
    \A c \in Calls :
        (/\ ExtractCall(c)
         /\ CallArgs(c).html # None /\ NonBlank(CallArgs(c).html[1])) =>
            NoFetch(c) /\ call[c].pc # "Acquiring"

(* C9: the stages run in the order validate, acquire, extract and the      *)
(* first failure ends the call: a GET is issued only after validation      *)
(* succeeded, the engine is invoked only after validation succeeded and,   *)
(* on the url path, after the GET returned a 2xx body; after a fetch       *)
(* failure the engine is not invoked and the call is Failed.               *)
C9_StageOrder ==
    \A c \in Calls :
        /\ ~NoFetch(c) => call[c].input_data # None
        /\ call[c].pc = "Acquiring" => (call[c].response = None /\ NoEngine(c))
        /\ ~NoEngine(c) =>
              /\ call[c].input_data # None
              /\ ~NoFetch(c) =>
                    (call[c].response # None /\ call[c].response[1].kind = "ok")
        /\ (call[c].response # None /\ call[c].response[1].kind # "ok") =>
              NoEngine(c) /\ ErrorReturned(c)
        /\ (PastValidation(c) /\ call[c].input_data = None) =>
              NoFetch(c) /\ NoEngine(c) /\ call[c].pc = "Failed"

C9_Witness ==
    \E c \in Calls :
        /\ call[c].response # None
        /\ call[c].response[1].kind = "status"
        /\ NoEngine(c)
        /\ ErrorReturned(c)

(* C10: a result with isError = false exists only when the engine returned *)
(* text that is non-blank, and its content is exactly one text item equal  *)
(* to that text without its leading and trailing whitespace, never empty.  *)
C10_SuccessPayload ==
    \A c \in Calls :
        (call[c].result # None /\ ~call[c].result[1].isError) =>
            /\ call[c].pc = "Succeeded"
            /\ call[c].future # None
            /\ call[c].future[1].kind = "value"
            /\ NonBlank(call[c].future[1].text)
            /\ Len(call[c].result[1].content) = 1
            /\ call[c].result[1].content[1].type = "text"
            /\ call[c].result[1].content[1].text # <<>>
            /\ IsTrimOf(call[c].result[1].content[1].text, call[c].future[1].text)

C10_Witness ==
    \E c \in Calls :
        /\ call[c].pc = "Succeeded"
        /\ call[c].future[1].text = <<" ", "x", " ">>
        /\ call[c].result[1].content = <<[type |-> "text", text |-> <<"x">>]>>

(* C11: when the engine returns None or a blank string the call ends       *)
(* Failed with the error flag set and the message that the page has no     *)
(* extractable text; when the engine raises, the call ends Failed with a   *)
(* different message; neither is a success with an empty payload.          *)
C11_EmptyOutputIsDistinctFailure ==
    \A c \in Calls :
        (call[c].future # None /\ Terminal(c)) =>
            LET out == call[c].future[1] IN
            /\ (out.kind = "none" \/ (out.kind = "value" /\ ~NonBlank(out.text))) =>
                  /\ ErrorReturned(c)
                  /\ ErrorText(c) =
                        <<"Trafilatura returned empty content. The page may not contain extractable text.">>
            /\ out.kind = "raise" =>
                  /\ ErrorReturned(c)
                  /\ ErrorText(c) #
                        <<"Trafilatura returned empty content. The page may not contain extractable text.">>

C11_Witness ==
    \E c \in Calls :
        /\ call[c].future # None
        /\ call[c].future[1].kind = "value"
        /\ call[c].future[1].text = <<" ">>
        /\ ErrorReturned(c)
        /\ Contains(ErrorText(c), MsgEmpty)

\* a step of the handling of call d, in the concurrent specification
StepOf(d) ==
    \/ CallTool(d)
    \/ Validate(d)
    \/ FetchReturn(d, FewTexts)
    \/ WorkerExtract(d, FewTexts)
    \/ ExtractReturn(d)

C13_NoRetry ==
    [][\A c \in Calls :
          /\ Len(call'[c].gets) <= 1
          /\ Len(call'[c].engineCalls) <= 1
          /\ call[c].future # None => call'[c].future = call[c].future
          /\ Terminal(c) => call'[c] = call[c]]_vars

C13_Witness ==
    \E c \in Calls :
        /\ call[c].pc = "Failed"
        /\ Len(call[c].gets) = 1
        /\ Len(call[c].engineCalls) = 1
        /\ call[c].future # None /\ call[c].future[1].kind = "raise"

(* C14: under fairness of the scheduler and the worker, and with every     *)
(* fetch and every engine invocation coming to an end, each call that has  *)
(* been received eventually is Succeeded or Failed (one of the two, since  *)
(* a call has one stage at a time, and for good by C13).                   *)
C14_EveryCallEnds ==
    \A c \in Calls : (call[c].pc # "Idle") ~> Terminal(c)

C14_Witness ==
    \E c, d \in Calls :
        /\ c # d
        /\ call[c].pc = "Succeeded" /\ call[c].gets # <<>>
        /\ call[d].pc = "Failed" /\ call[d].future # None

(* C15: on both paths, HTML that is empty or all whitespace makes the call *)
(* fail with the no-content-available error without the engine being      *)
(* invoked; every invocation of the engine carries non-blank HTML.         *)
C15_BlankHtmlNeverExtracted ==
    \A c \in Calls :
        /\ \A i \in 1..Len(call[c].engineCalls) : NonBlank(call[c].engineCalls[i].html)
        /\ (/\ call[c].response # None
            /\ call[c].response[1].kind = "ok"
            /\ ~NonBlank(call[c].response[1].text)) =>
              /\ NoEngine(c)
              /\ ErrorReturned(c)
              /\ ErrorText(c) = <<"No HTML content available for extraction">>
        /\ (/\ ExtractCall(c)
            /\ call[c].input_data # None
            /\ CallArgs(c).url = None
            /\ CallArgs(c).html # None /\ ~NonBlank(CallArgs(c).html[1])) =>
              /\ NoFetch(c) /\ NoEngine(c)
              /\ ErrorReturned(c)
              /\ ErrorText(c) = <<"No HTML content available for extraction">>

C15_Witness ==
    \E c \in Calls :
        /\ call[c].response # None
        /\ call[c].response[1].kind = "ok"
        /\ call[c].response[1].text = <<" ", " ">>
        /\ NoEngine(c)
        /\ ErrorReturned(c)
        /\ Contains(ErrorText(c), MsgNoHtml)

(* C16: an exception raised by the engine in the worker ends the call      *)
(* Failed with the error flag set, and the message is the classified       *)
(* extraction error carrying the cause text ("Content extraction failed:   *)
(* <cause>"), not the wrapping of an unclassified exception ("Unexpected   *)
(* error:", "Internal error:"); nothing is raised out of call_tool.        *)
C16_EngineExceptionClassified ==
    \A c \in Calls :
        (/\ call[c].future # None
         /\ call[c].future[1].kind = "raise"
         /\ call[c].pc # "Extracting") =>
            /\ ErrorReturned(c)
            /\ call[c].raised = None
            /\ ErrorText(c) = <<"Content extraction failed:", call[c].future[1].cause>>

C16_Witness ==
    \E c \in Calls :
        /\ call[c].future # None
        /\ call[c].future[1].kind = "raise"
        /\ call[c].future[1].cause = "MemoryError"
        /\ ErrorReturned(c)
        /\ Contains(ErrorText(c), "MemoryError")

(* C17: an html that is empty or all whitespace, given without a url, is   *)
(* rejected by the validator with the exactly-one-of-source violation, so  *)
(* the call never gets past validation to the empty-content check.         *)
C17_BlankHtmlRejectedByValidator ==
    \A c \in Calls :
        (/\ ExtractCall(c)
         /\ PastValidation(c)
         /\ CallArgs(c).url = None
         /\ CallArgs(c).html # None /\ ~NonBlank(CallArgs(c).html[1])
         /\ TimeoutInRange(CallArgs(c)) /\ FormatInSet(CallArgs(c))) =>
            /\ SourceViolation(c)
            /\ call[c].input_data = None
            /\ call[c].html_content = None

(* C18 as stated: when html is supplied (and no url), the engine is handed *)
(* the caller's html without its leading and trailing whitespace.          *)
C18_EngineGetsTrimmedHtml ==
    \A c \in Calls :
        (/\ ExtractCall(c)
         /\ CallArgs(c).url = None
         /\ CallArgs(c).html # None /\ NonBlank(CallArgs(c).html[1])
         /\ ~NoEngine(c)) =>
            IsTrimOf(call[c].engineCalls[1].html, CallArgs(c).html[1])

(* C18, amended: when html is supplied (and no url), the engine is handed  *)
(* the caller's html exactly as supplied, leading and trailing whitespace  *)
(* included; whitespace is stripped only to decide whether it is blank.    *)
C18_EngineGetsHtmlAsSupplied ==
    \A c \in Calls :
        (/\ ExtractCall(c)
         /\ CallArgs(c).url = None
         /\ CallArgs(c).html # None /\ NonBlank(CallArgs(c).html[1])
         /\ TimeoutInRange(CallArgs(c)) /\ FormatInSet(CallArgs(c))
         /\ PastValidation(c)) =>
            /\ NoFetch(c)
            /\ Len(call[c].engineCalls) = 1
            /\ call[c].engineCalls[1].html = CallArgs(c).html[1]

C18_Witness ==
    \E c \in Calls :
        /\ ExtractCall(c)
        /\ CallArgs(c).url = None
        /\ CallArgs(c).html = Some(<<" ", "x", " ">>)
        /\ ~NoEngine(c)
        /\ call[c].engineCalls[1].html = <<" ", "x", " ">>

(* C19: a call whose arguments hold a key that is no property of the       *)
(* tool's schema is rejected with a validation error, and nothing is       *)
(* fetched or extracted for it.                                            *)
C19_ExtraKeysRejected ==
    \A c \in Calls :
        (/\ ExtractCall(c)
         /\ ~ToolDescriptor.additionalProperties
         /\ CallArgs(c).extra) =>
            /\ NoFetch(c) /\ NoEngine(c)
            /\ PastValidation(c) => ValidationFailed(c)

\* what a call's outcome may depend on, and the outcome
InputsOf(c) ==
    [request |-> call[c].request, response |-> call[c].response,
     future |-> call[c].future]

OutcomeOf(c) == [pc |-> call[c].pc, result |-> call[c].result, raised |-> call[c].raised]

\* two ended calls with the same arguments, the same response to their GET
\* and the same engine outcome have the same result
SameInputsSameOutcome ==
    \A c, d \in Calls :
        (Terminal(c) /\ Terminal(d) /\ InputsOf(c) = InputsOf(d)) =>
            OutcomeOf(c) = OutcomeOf(d)

====
